---- MODULE Spec2Model ----
(***************************************************************************)
(* Model of the typed publish/subscribe core: EventDispatcher (registry),  *)
(* SpecificDispatcher<EventType> (one per event type, owning m_callbacks,  *)
(* a std::map keyed by Subscription pointer) and Subscription (the handle  *)
(* owned by the caller, holding the raw pointer m_specific_dispatcher).    *)
(*                                                                         *)
(* The program is single threaded.  A publish is a loop over m_callbacks   *)
(* whose body runs caller code (the callback), so it is modelled one loop  *)
(* iteration per step; the same holds for the loop of ~SpecificDispatcher. *)
(* Undefined behaviour (use of an erased map iterator, a call through a    *)
(* null or dangling m_specific_dispatcher) is recorded in `fault` and      *)
(* continues with a nondeterministic choice of outcome.                    *)
(***************************************************************************)
EXTENDS Integers, Sequences, FiniteSets, TLC

\* ---------------------------------------------------------------- bounds
\* Number of heap addresses a Subscription object can be allocated at.
MaxAddr == 2
\* Total number of subscribe calls in one run.
MaxSubs == 2
\* Total number of publish calls in one run.
MaxPublish == 2

\* The event types of the application (two types derived from Event).
Types == {"A", "B"}
\* Heap addresses of Subscription objects; std::map orders its keys by them.
Addr == 1..MaxAddr
\* What a callback does when invoked, besides observing the event.
Kinds == {"log", "cancelSelf", "cancelOther", "subscribe"}

\* The past-the-end iterator of m_callbacks.
End == 0
\* No SpecificDispatcher is being iterated.
NoType == "none"
\* The value nullptr of m_specific_dispatcher.
Null == "null"
\* An address holding no Subscription object.
\* (id, type and cancelled are history: which subscribe call made the object, the
\* EventType it was made for, and whether cancel() has run to its end on it.)
NoHandle == [id |-> 0, type |-> NoType, m_specific_dispatcher |-> Null,
             cancelled |-> FALSE]

NoFault == "none"
NullDeref == "cancel through null m_specific_dispatcher"
DanglingDeref == "cancel through destroyed SpecificDispatcher"
PublishIter == "publish advances an erased iterator"
DtorIter == "~SpecificDispatcher advances an erased iterator"

VARIABLES
    registry,       \* lifetime of the EventDispatcher: "alive", "destroying", "destroyed"
    m_dispatchers,  \* keys of EventDispatcher::m_dispatchers
    destroyed,      \* event types whose SpecificDispatcher has been destroyed
    m_callbacks,    \* per type: SpecificDispatcher::m_callbacks, address -> callback
    handles,        \* address -> the Subscription object allocated there
    pc,             \* "idle", "publish", "dtor", "crashed"
    curType,        \* the SpecificDispatcher whose loop is running
    iter,           \* the loop's iterator: an address, or End
    fault,          \* first undefined behaviour executed, or NoFault
    nextId,         \* history: number of subscribe calls so far
    published,      \* history: number of publish calls so far
    pass,           \* history: the last publish call and the subscriptions at its start
    delivered,      \* history: the callback invocations of the last publish, in order
                    \* (both kept until the caller's next operation starts)
    everUsed        \* history: the addresses that have held a Subscription object

vars == <<registry, m_dispatchers, destroyed, m_callbacks, handles, pc, curType,
          iter, fault, nextId, published, pass, delivered, everUsed>>

\* ------------------------------------------------------------- helpers

\* The empty std::map.
EmptyMap == [a \in {} |-> 0]

Keys(T) == DOMAIN m_callbacks[T]

Live == {a \in Addr : handles[a] # NoHandle}

\* Subscription::active
active(a) == handles[a].m_specific_dispatcher # Null

\* std::type_index(typeid(EventType)): the key of m_dispatchers.
DispatcherKeySame(T) == "A"
DispatcherKey(T) == T

\* std::map::begin over a key set.
BeginAtEnd(keys) == End
Begin(keys) == IF keys = {} THEN End ELSE CHOOSE k \in keys : \A j \in keys : k <= j

\* ++it on a valid iterator: the in-order successor.
NextIterSkip(keys, it) ==
    LET after == {k \in keys : k > it + 1}
    IN IF after = {} THEN End ELSE CHOOSE k \in after : \A j \in after : k <= j
NextIter(keys, it) ==
    LET after == {k \in keys : k > it}
    IN IF after = {} THEN End ELSE CHOOSE k \in after : \A j \in after : k <= j

\* std::map::erase(key): a no-op when the key is absent.
Erase(cbs, a) == [k \in (DOMAIN cbs) \ {a} |-> cbs[k]]

\* std::map::insert: keeps the existing entry when the key is present.
InsertNothing(cbs, a, cb) == cbs
InsertOnly(cbs, a, cb) == [k \in {a} |-> cb]
Insert(cbs, a, cb) ==
    IF a \in DOMAIN cbs THEN cbs
    ELSE [k \in (DOMAIN cbs) \cup {a} |-> IF k = a THEN cb ELSE cbs[k]]

\* The subscriptions, by id, whose handle is gone or has been cancelled.
Cancelled == {i \in 1..nextId : ~\E a \in Live : handles[a].id = i /\ active(a)}

\* The subscriptions, by id, that are active for event type T.
ActiveFor(T) == {handles[a].id : a \in {b \in Live : active(b) /\ handles[b].type = T}}

\* No publish call has been made.
NoPass == [type |-> NoType, value |-> 0, start |-> {}, cancelled |-> {},
           mutated |-> FALSE, done |-> TRUE]

FirstFault(f) == IF fault = NoFault THEN f ELSE fault

\* ---------------------------------------------------- Subscription::cancel

\* SpecificDispatcher::unsubscribe
unsubscribeNothing(cbs, a) == cbs
unsubscribeAll(cbs, a) == EmptyMap
unsubscribe(cbs, a) == Erase(cbs, a)

\* Subscription::cancel on the object at address a: the states it can end in.
\* It calls unsubscribe through m_specific_dispatcher without testing it, then
\* sets it to nullptr.
CancelKeepsPointer(cbs, hs, a) ==
    LET p == hs[a].m_specific_dispatcher
        kept == [hs EXCEPT ![a].cancelled = TRUE]
    IN IF p = Null
       THEN {[cbs |-> cbs, hs |-> hs, fault |-> NullDeref, crashed |-> TRUE]}
       ELSE IF p \in destroyed
       THEN {[cbs |-> cbs, hs |-> hs, fault |-> DanglingDeref, crashed |-> TRUE],
             [cbs |-> cbs, hs |-> kept, fault |-> DanglingDeref, crashed |-> FALSE]}
       ELSE {[cbs |-> [cbs EXCEPT ![p] = unsubscribe(@, a)], hs |-> kept,
              fault |-> NoFault, crashed |-> FALSE]}
CancelOutcomes(cbs, hs, a) ==
    LET p == hs[a].m_specific_dispatcher
        cleared == [hs EXCEPT ![a].m_specific_dispatcher = Null, ![a].cancelled = TRUE]
    IN IF p = Null
       THEN {[cbs |-> cbs, hs |-> hs, fault |-> NullDeref, crashed |-> TRUE]}
       ELSE IF p \in destroyed
       THEN {[cbs |-> cbs, hs |-> hs, fault |-> DanglingDeref, crashed |-> TRUE],
             [cbs |-> cbs, hs |-> cleared, fault |-> DanglingDeref, crashed |-> FALSE]}
       ELSE {[cbs |-> [cbs EXCEPT ![p] = unsubscribe(@, a)], hs |-> cleared,
              fault |-> NoFault, crashed |-> FALSE]}

\* ------------------------------------------------- EventDispatcher::dispatcher

\* EventDispatcher::dispatcher<T>(): the SpecificDispatcher found under the key of
\* T, or a new one (with an empty m_callbacks) inserted under it when none is
\* found.  ds and cbs are m_dispatchers and the callback maps after the call.
dispatcherOnly(T) ==
    [ds |-> {DispatcherKey(T)}, cbs |-> m_callbacks]
dispatcherFresh(T) ==
    [ds |-> m_dispatchers \cup {DispatcherKey(T)},
     cbs |-> [m_callbacks EXCEPT ![DispatcherKey(T)] = EmptyMap]]
dispatcher(T) ==
    IF DispatcherKey(T) \in m_dispatchers
    THEN [ds |-> m_dispatchers, cbs |-> m_callbacks]
    ELSE [ds |-> m_dispatchers \cup {DispatcherKey(T)},
          cbs |-> [m_callbacks EXCEPT ![DispatcherKey(T)] = EmptyMap]]

\* ------------------------------------------------------------- Init

Init ==
    /\ registry = "alive"
    /\ m_dispatchers = {}
    /\ destroyed = {}
    /\ m_callbacks = [T \in Types |-> EmptyMap]
    /\ handles = [a \in Addr |-> NoHandle]
    /\ pc = "idle"
    /\ curType = NoType
    /\ iter = End
    /\ fault = NoFault
    /\ nextId = 0
    /\ published = 0
    /\ pass = NoPass
    /\ delivered = <<>>
    /\ everUsed = {}

\* ------------------------------------------------- EventDispatcher::subscribe

\* EventDispatcher::subscribe<T>(callback): dispatcher<T>() finds or creates the
\* SpecificDispatcher; SpecificDispatcher::subscribe allocates the Subscription
\* (at any free address a) and inserts it with the callback.
Subscribe(T, kind, a) ==
    LET key == DispatcherKey(T)
        id == nextId + 1
    IN /\ pc = "idle"
       /\ registry = "alive"
       /\ nextId < MaxSubs
       /\ a \notin Live
       /\ m_dispatchers' = dispatcher(T).ds
       /\ handles' = [handles EXCEPT ![a] =
                         [id |-> id, type |-> T, m_specific_dispatcher |-> key,
                          cancelled |-> FALSE]]
       /\ m_callbacks' = [dispatcher(T).cbs EXCEPT ![key] =
                             Insert(@, a, [id |-> id, kind |-> kind, type |-> T])]
       /\ nextId' = id
       /\ everUsed' = everUsed \cup {a}
       /\ pass' = NoPass /\ delivered' = <<>>
       /\ UNCHANGED <<registry, destroyed, pc, curType, iter, fault, published>>

\* ------------------------------------------------- Subscription::cancel, explicit

Cancel(a) ==
    /\ pc = "idle"
    /\ a \in Live
    /\ \E o \in CancelOutcomes(m_callbacks, handles, a) :
          /\ m_callbacks' = o.cbs
          /\ handles' = o.hs
          /\ fault' = IF o.fault = NoFault THEN fault ELSE FirstFault(o.fault)
          /\ pc' = IF o.crashed THEN "crashed" ELSE "idle"
    /\ pass' = NoPass /\ delivered' = <<>>
    /\ UNCHANGED <<registry, m_dispatchers, destroyed, curType, iter, nextId,
                   published, everUsed>>

\* Subscription::~Subscription: cancel(), then the object's storage is released.
DestroyHandleNoCancel(a) ==
    /\ pc = "idle"
    /\ a \in Live
    /\ handles' = [handles EXCEPT ![a] = NoHandle]
    /\ pass' = NoPass /\ delivered' = <<>>
    /\ UNCHANGED <<registry, m_dispatchers, destroyed, m_callbacks, curType, iter,
                   fault, pc, nextId, published, everUsed>>
DestroyHandle(a) ==
    /\ pc = "idle"
    /\ a \in Live
    /\ \E o \in CancelOutcomes(m_callbacks, handles, a) :
          /\ m_callbacks' = o.cbs
          /\ handles' = IF o.crashed THEN o.hs ELSE [o.hs EXCEPT ![a] = NoHandle]
          /\ fault' = IF o.fault = NoFault THEN fault ELSE FirstFault(o.fault)
          /\ pc' = IF o.crashed THEN "crashed" ELSE "idle"
    /\ pass' = NoPass /\ delivered' = <<>>
    /\ UNCHANGED <<registry, m_dispatchers, destroyed, curType, iter, nextId,
                   published, everUsed>>

\* ------------------------------------------------- EventDispatcher::publish

\* EventDispatcher::publish<T>(event): dispatcher<T>() finds or creates the
\* SpecificDispatcher, whose publish starts its loop at m_callbacks.begin().
\* The event carries the number of the publish call (0, 1, ...), as in main.
Publish(T) ==
    LET key == DispatcherKey(T)
        it == Begin(DOMAIN dispatcher(T).cbs[key])
    IN /\ pc = "idle"
       /\ registry = "alive"
       /\ published < MaxPublish
       /\ m_dispatchers' = dispatcher(T).ds
       /\ m_callbacks' = dispatcher(T).cbs
       /\ published' = published + 1
       /\ pass' = [type |-> T, value |-> published, start |-> ActiveFor(T),
                   cancelled |-> Cancelled, mutated |-> FALSE, done |-> it = End]
       /\ delivered' = <<>>
       /\ iter' = it
       /\ curType' = IF it = End THEN NoType ELSE key
       /\ pc' = IF it = End THEN "idle" ELSE "publish"
       /\ UNCHANGED <<registry, destroyed, handles, fault, nextId, everUsed>>

\* What the callback at iterator `it` does to the subscriptions when invoked.
Unchanged ==
    [cbs |-> m_callbacks, hs |-> handles, fault |-> NoFault, crashed |-> FALSE,
     nid |-> nextId, mut |-> FALSE]

CallbackCancels(b) ==
    {[cbs |-> o.cbs, hs |-> o.hs, fault |-> o.fault, crashed |-> o.crashed,
      nid |-> nextId, mut |-> TRUE] :
        o \in CancelOutcomes(m_callbacks, handles, b)}

CallbackSubscribes(T) ==
    {[cbs |-> [dispatcher(T).cbs EXCEPT ![DispatcherKey(T)] =
                  Insert(@, a, [id |-> nextId + 1, kind |-> "log", type |-> T])],
      hs |-> [handles EXCEPT ![a] = [id |-> nextId + 1, type |-> T,
                                     m_specific_dispatcher |-> DispatcherKey(T),
                                     cancelled |-> FALSE]],
      fault |-> NoFault, crashed |-> FALSE, nid |-> nextId + 1, mut |-> TRUE] : a \in Addr \ Live}

CallbackOutcomes(it, cb) ==
    IF cb.kind = "cancelSelf" THEN CallbackCancels(it)
    ELSE IF cb.kind = "cancelOther" /\ \E b \in Live \ {it} : active(b)
    THEN UNION {CallbackCancels(b) : b \in {c \in Live \ {it} : active(c)}}
    ELSE IF cb.kind = "subscribe" /\ nextId < MaxSubs /\ Live # Addr
    THEN CallbackSubscribes(cb.type)
    ELSE {Unchanged}

\* ++it: the positions the loop can continue at.  On a valid iterator that is
\* the in-order successor.  On the iterator of an erased element the behaviour
\* is undefined: the loop stops, or goes on at any element of the map.
Advance(keys, it) ==
    IF it \in keys THEN {NextIter(keys, it)} ELSE keys \cup {End}

\* One iteration of the loop of SpecificDispatcher::publish: the callback at
\* the iterator is invoked with the event, then the iterator is advanced.
PublishStep ==
    LET T == curType
        cb == m_callbacks[T][iter]
    IN /\ pc = "publish"
       /\ delivered' = Append(delivered,
              [id |-> cb.id, subType |-> cb.type, value |-> pass.value])
       /\ \E o \in CallbackOutcomes(iter, cb) :
            LET keys == DOMAIN o.cbs[T]
                stale == ~o.crashed /\ iter \notin keys
                f == IF o.fault # NoFault THEN o.fault
                     ELSE IF stale THEN PublishIter ELSE NoFault
            IN /\ m_callbacks' = o.cbs
               /\ handles' = o.hs
               /\ nextId' = o.nid
               /\ everUsed' = everUsed \cup {a \in Addr : o.hs[a] # NoHandle}
               /\ fault' = IF f = NoFault THEN fault ELSE FirstFault(f)
               /\ \/ /\ o.crashed \/ stale
                     /\ pc' = "crashed"
                     /\ UNCHANGED <<iter, curType>>
                     /\ pass' = [pass EXCEPT !.mutated = @ \/ o.mut]
                  \/ /\ ~o.crashed
                     /\ \E nxt \in Advance(keys, iter) :
                          /\ iter' = nxt
                          /\ curType' = IF nxt = End THEN NoType ELSE T
                          /\ pc' = IF nxt = End THEN "idle" ELSE "publish"
                          /\ pass' = [pass EXCEPT !.mutated = @ \/ o.mut,
                                                   !.done = (nxt = End)]
       /\ UNCHANGED <<registry, m_dispatchers, destroyed, published>>

\* ------------------------------------------------- EventDispatcher::~EventDispatcher

\* The destructor starts: m_dispatchers is destroyed, element by element.
DestroyRegistry ==
    /\ pc = "idle"
    /\ registry = "alive"
    /\ registry' = "destroying"
    /\ pc' = "dtor"
    /\ pass' = NoPass /\ delivered' = <<>>
    /\ UNCHANGED <<m_dispatchers, destroyed, m_callbacks, handles, curType, iter,
                   fault, nextId, published, everUsed>>

\* The next unique_ptr<SpecificDispatcherBase> of m_dispatchers is destroyed:
\* ~SpecificDispatcher starts its loop at m_callbacks.begin(); with no element
\* left, the EventDispatcher is gone.
DestroyDispatcher ==
    /\ pc = "dtor"
    /\ curType = NoType
    /\ IF m_dispatchers = {}
       THEN /\ registry' = "destroyed"
            /\ pc' = "idle"
            /\ UNCHANGED <<m_dispatchers, destroyed, curType, iter>>
       ELSE \E T \in m_dispatchers :
            LET it == Begin(Keys(T))
            IN /\ iter' = it
               /\ curType' = IF it = End THEN NoType ELSE T
               /\ m_dispatchers' = IF it = End THEN m_dispatchers \ {T} ELSE m_dispatchers
               /\ destroyed' = IF it = End THEN destroyed \cup {T} ELSE destroyed
               /\ UNCHANGED <<registry, pc>>
    /\ UNCHANGED <<m_callbacks, handles, fault, nextId, published, delivered,
                   pass, everUsed>>

\* One iteration of the loop of ~SpecificDispatcher: subscription->cancel() on
\* the key at the iterator, which erases that element, then the iterator is
\* advanced.  After the loop m_callbacks is destroyed with the dispatcher.
DtorStep ==
    LET T == curType
    IN /\ pc = "dtor"
       /\ curType # NoType
       /\ \E o \in CancelOutcomes(m_callbacks, handles, iter) :
            LET keys == DOMAIN o.cbs[T]
                stale == ~o.crashed /\ iter \notin keys
                f == IF o.fault # NoFault THEN o.fault
                     ELSE IF stale THEN DtorIter ELSE NoFault
            IN /\ handles' = o.hs
               /\ fault' = IF f = NoFault THEN fault ELSE FirstFault(f)
               /\ \/ /\ o.crashed \/ stale
                     /\ pc' = "crashed"
                     /\ m_callbacks' = o.cbs
                     /\ UNCHANGED <<iter, curType, m_dispatchers, destroyed>>
                  \/ /\ ~o.crashed
                     /\ \E nxt \in Advance(keys, iter) :
                          /\ iter' = nxt
                          /\ pc' = "dtor"
                          /\ curType' = IF nxt = End THEN NoType ELSE T
                          /\ m_callbacks' = IF nxt = End
                                            THEN [o.cbs EXCEPT ![T] = EmptyMap]
                                            ELSE o.cbs
                          /\ m_dispatchers' = IF nxt = End THEN m_dispatchers \ {T}
                                              ELSE m_dispatchers
                          /\ destroyed' = IF nxt = End THEN destroyed \cup {T}
                                          ELSE destroyed
       /\ UNCHANGED <<registry, nextId, published, delivered, pass, everUsed>>

\* ------------------------------------------------------------- specification

Next ==
    \/ \E T \in Types, kind \in Kinds, a \in Addr : Subscribe(T, kind, a)
    \/ \E T \in Types : Publish(T)
    \/ PublishStep
    \/ \E a \in Addr : Cancel(a)
    \/ \E a \in Addr : DestroyHandle(a)
    \/ DestroyRegistry
    \/ DestroyDispatcher
    \/ DtorStep

Spec == Init /\ [][Next]_vars

\* ------------------------------------------------------------- claims

\* The ids of the callbacks invoked by the last publish.
DeliveredIds == {delivered[i].id : i \in 1..Len(delivered)}

\* C1: in every sequence of subscribe, publish, cancel, handle destruction and
\* registry destruction, no step calls through a null m_specific_dispatcher or
\* through a pointer to a destroyed SpecificDispatcher.
C1_NoStaleDereference == fault \notin {NullDeref, DanglingDeref}

\* C2: once the destruction of the registry has begun, no step executes undefined
\* behaviour (neither the destructor itself nor a later cancel or destruction of
\* a handle), and when the registry is gone every remaining handle is inactive.
C2_TeardownSafe ==
    [][registry' # "alive" =>
          /\ fault = NoFault => fault' = NoFault
          /\ registry' = "destroyed" =>
                \A a \in Addr : handles'[a] # NoHandle =>
                                  handles'[a].m_specific_dispatcher = Null]_vars

\* C3: cancel() is idempotent: a cancel() on, or the destruction of, a handle that
\* was already cancelled does not fault and leaves every subscriber map as it was.
C3_CancelIdempotent ==
    [][\A a \in Addr :
          (a \in Live /\ handles[a].cancelled /\ (Cancel(a) \/ DestroyHandle(a)))
          => (pc' = "idle" /\ fault' = fault /\ m_callbacks' = m_callbacks)]_vars

\* C4: a subscription cancelled (by cancel() or by the destruction of its handle)
\* before a publish began is not invoked by that publish.
C4_NoDeliveryAfterCancel ==
    \A i \in 1..Len(delivered) : delivered[i].id \notin pass.cancelled

\* C4 witness: a publish of a type has completed with a callback invoked while a
\* handle of that type, cancelled before the publish, is still held.
C4_Witness ==
    /\ pass.done /\ Len(delivered) > 0
    /\ \E a \in Live : /\ handles[a].cancelled
                       /\ handles[a].type = pass.type
                       /\ handles[a].id \in pass.cancelled

\* C5: while exactly one subscription of the published type is active, a publish
\* invokes that subscription's callback exactly once, with the published event
\* (publish number n carries value n - 1, so successive publishes are seen in order).
C5_SingleDelivery ==
    (Cardinality(pass.start) = 1 /\ ~pass.mutated) =>
        /\ Len(delivered) <= 1
        /\ \A i \in 1..Len(delivered) :
              delivered[i] = [id |-> CHOOSE s \in pass.start : TRUE,
                              subType |-> pass.type, value |-> published - 1]
        /\ pass.done => Len(delivered) = 1

\* C5 witness: the second publish to a single subscriber has completed.
C5_Witness ==
    /\ pass.done /\ ~pass.mutated /\ Cardinality(pass.start) = 1
    /\ published = 2 /\ Len(delivered) = 1 /\ delivered[1].value = 1

\* C6: a callback that cancels its own subscription during publish lets the loop
\* of publish continue without using the iterator of the erased element.
C6_SelfCancelSafe == fault # PublishIter

\* C7: the callbacks invoked by one publish are exactly the subscriptions active
\* when the publish began, each once, whatever the callbacks subscribe or cancel
\* (stated for the runs free of undefined behaviour, where it already fails).
C7_SnapshotDispatch ==
    (pass.done /\ fault = NoFault) => /\ DeliveredIds = pass.start
                                      /\ Len(delivered) = Cardinality(pass.start)

\* C8: a callback registered for one event type is never invoked by a publish of
\* another event type.
C8_TypeIsolation ==
    \A i \in 1..Len(delivered) : delivered[i].subType = pass.type

\* C8 witness: a publish has invoked a callback while a subscription of another
\* type is active.
C8_Witness ==
    /\ pass.done /\ Len(delivered) > 0
    /\ \E a \in Live : active(a) /\ handles[a].type # pass.type

\* C9: when no callback changes a subscription, a publish invokes the callback of
\* every subscription active for its type exactly once, and no other callback.
C9_FanOut ==
    (pass.done /\ ~pass.mutated) =>
        /\ DeliveredIds = pass.start
        /\ Len(delivered) = Cardinality(pass.start)

\* C9 witness: a publish to two subscribers has completed.
C9_Witness ==
    pass.done /\ ~pass.mutated /\ Cardinality(pass.start) = 2 /\ Len(delivered) = 2

\* C10: a handle is active exactly when it has not been cancelled and the
\* SpecificDispatcher it is bound to still exists.
C10_ActiveIffBound ==
    \A a \in Live :
        active(a) <=> (~handles[a].cancelled /\
                       DispatcherKey(handles[a].type) \notin destroyed)

\* The callback map cbs restricted to the keys other than a.
Others(cbs, a) == [k \in (DOMAIN cbs) \ {a} |-> cbs[k]]

\* C11 as claimed: a publish of a type that has no subscriber (with or without a
\* SpecificDispatcher for it) invokes no callback, does not fault, and leaves the
\* table m_dispatchers, every callback map and every handle unchanged.
C11_EmptyPublishNoOp ==
    [][\A T \in Types :
          (Publish(T) /\ ActiveFor(T) = {}) =>
              /\ pc' = "idle" /\ delivered' = <<>> /\ fault' = fault
              /\ m_callbacks' = m_callbacks /\ handles' = handles
              /\ m_dispatchers' = m_dispatchers]_vars

\* C11 as amended: such a publish invokes no callback, does not fault and leaves
\* every callback map and every handle unchanged; m_dispatchers gains the
\* (empty) SpecificDispatcher of T when it had none and is unchanged otherwise.
\* (A step that raises `published` is the start of a publish of type pass'.type.)
C11_EmptyPublishCreatesOnly ==
    [][(published' # published /\ ActiveFor(pass'.type) = {}) =>
          /\ pc' = "idle" /\ delivered' = <<>> /\ fault' = fault
          /\ m_callbacks' = m_callbacks /\ handles' = handles
          /\ m_dispatchers' = m_dispatchers \cup {pass'.type}
          /\ m_callbacks'[pass'.type] = EmptyMap]_vars

\* C11 witness: a type nobody ever subscribed to has been published while a
\* subscriber of the other type is active; its SpecificDispatcher now exists.
C11_Witness ==
    /\ published >= 1 /\ pass.done /\ pass.start = {} /\ delivered = <<>>
    /\ pass.type \in m_dispatchers
    /\ \A a \in Live : handles[a].type # pass.type
    /\ \E a \in Live : active(a)
    /\ nextId = Cardinality(Live)

\* C12: for every SpecificDispatcher that exists, an address is a key of its
\* m_callbacks exactly when the Subscription at that address is alive, bound to
\* it and not cancelled, and the entry is the one made for that Subscription.
C12_KeyIffActive ==
    \A T \in m_dispatchers : \A a \in Addr :
        /\ a \in Keys(T) <=> (a \in Live /\ handles[a].m_specific_dispatcher = T)
        /\ a \in Keys(T) => (m_callbacks[T][a].id = handles[a].id /\ ~handles[a].cancelled)

\* C12 witness: a dispatcher holds the entry of an active handle while another
\* handle of the same type is held cancelled.
C12_Witness ==
    \E T \in m_dispatchers : \E a \in Keys(T), b \in Live :
        a # b /\ handles[b].type = T /\ handles[b].cancelled

\* C13: while the loop of ~SpecificDispatcher runs, the callback map it iterates
\* is not modified, and when the dispatcher is gone no handle is bound to it.
C13_DtorLeavesMapAlone ==
    [][/\ (pc = "dtor" /\ curType # NoType) => m_callbacks'[curType] = m_callbacks[curType]
       /\ \A T \in destroyed' \ destroyed :
             \A a \in Addr : handles'[a].m_specific_dispatcher # T]_vars

\* C14: while the registry is alive no SpecificDispatcher is removed from
\* m_dispatchers; a subscribe or publish of T leaves m_dispatchers with the
\* dispatcher of T added if it was missing, keeps every entry the dispatcher of T
\* already held (it is the same dispatcher, not a new one), and binds the new
\* Subscription to it.
\* (A step that raises `published` is the start of a publish of type pass'.type; a
\* step that raises nextId at pc = "idle" is a subscribe, of the type of the new
\* Subscription.)
C14_OneChannelPerType ==
    [][registry' = "alive" =>
          /\ m_dispatchers \subseteq m_dispatchers'
          /\ \A T \in Types :
                (\/ published' # published /\ pass'.type = T
                 \/ /\ pc = "idle" /\ nextId' # nextId
                    /\ \E a \in Addr : handles'[a].id = nextId' /\ handles'[a].type = T) =>
                    /\ m_dispatchers' = m_dispatchers \cup {T}
                    /\ \A k \in Keys(T) : /\ k \in DOMAIN m_callbacks'[T]
                                          /\ m_callbacks'[T][k] = m_callbacks[T][k]
                    /\ \A a \in Addr : handles'[a] # handles[a] =>
                                          handles'[a].m_specific_dispatcher = T]_vars

\* C14 witness: a publish of a type has reached, and invoked, the subscriber that
\* an earlier subscribe registered, with the dispatchers of both types present.
C14_Witness ==
    /\ registry = "alive" /\ m_dispatchers = Types
    /\ pass.done /\ Len(delivered) = 1 /\ fault = NoFault
    /\ \E a \in Live : handles[a].id = delivered[1].id /\ handles[a].type = pass.type

\* C15: a handle is either active or cancelled, never both and never neither, and
\* a cancelled handle does not become active again.
C15_CancelOneWay ==
    /\ [](\A a \in Live : active(a) <=> ~handles[a].cancelled)
    /\ [][\A a \in Addr :
             (handles[a].cancelled /\ handles'[a].id = handles[a].id) =>
                 (handles'[a].cancelled /\ handles'[a].m_specific_dispatcher = Null)]_vars

\* C15 witness: a handle cancelled while the registry was alive is still held,
\* still cancelled, after a publish and the destruction of the registry.
C15_Witness ==
    /\ registry = "destroyed" /\ fault = NoFault /\ published >= 1
    /\ \E a \in Live : handles[a].cancelled /\ ~active(a)

\* C16: a subscribe (from the caller or from a callback) inserts its callback
\* under an address that is not yet a key of the dispatcher's map: the map gains
\* exactly that entry and keeps every entry it had, also at a reused address.
C16_FreshKey ==
    [][nextId' # nextId =>
          \E a \in Addr :
             LET T == handles'[a].m_specific_dispatcher
             IN /\ handles'[a].id = nextId' /\ handles[a] = NoHandle
                /\ a \notin Keys(T)
                /\ DOMAIN m_callbacks'[T] = Keys(T) \cup {a}
                /\ m_callbacks'[T][a].id = nextId'
                /\ \A k \in Keys(T) : m_callbacks'[T][k] = m_callbacks[T][k]
                /\ \A U \in Types \ {T} : m_callbacks'[U] = m_callbacks[U]]_vars

\* C16 witness: the latest subscription is registered at an address that an
\* earlier, destroyed Subscription had occupied.
C16_Witness ==
    \E T \in Types : \E b \in Keys(T) :
        /\ Cardinality(everUsed) < nextId
        /\ m_callbacks[T][b].id = nextId
        /\ handles[b].id = nextId /\ active(b)

\* C17: a publish whose callbacks only observe the event leaves every callback
\* map and every handle as they were, at its start and at each invocation.
C17_PublishFrame ==
    [][(\/ published' # published
        \/ pc = "publish" /\ m_callbacks[curType][iter].kind = "log")
       => (m_callbacks' = m_callbacks /\ handles' = handles)]_vars

\* C17 witness: a publish to two observing subscribers has completed and both
\* are still registered and active.
C17_Witness ==
    /\ pass.done /\ Len(delivered) = 2 /\ ~pass.mutated
    /\ \A i \in 1..2 : \E a \in Keys(pass.type) :
          /\ m_callbacks[pass.type][a].id = delivered[i].id
          /\ m_callbacks[pass.type][a].kind = "log"
          /\ active(a)

\* C18: cancel() on, or the destruction of, an active handle removes that
\* handle's entry and nothing else: the other entries of its dispatcher, the
\* maps of the other dispatchers and the other handles are unchanged.
\* (At pc = "idle" the steps that change an active handle are its cancel() and its
\* destruction.)
C18_CancelFrame ==
    [][\A a \in Addr :
          (pc = "idle" /\ a \in Live /\ active(a) /\ handles'[a] # handles[a]) =>
              /\ \A T \in Types : m_callbacks'[T] = Others(m_callbacks[T], a)
              /\ \A b \in Addr \ {a} : handles'[b] = handles[b]]_vars

\* C18 witness: of two subscriptions of one type one has been cancelled and the
\* other, still registered, was invoked by a later publish.
C18_Witness ==
    \E a \in Live, b \in Live :
        /\ handles[a].type = handles[b].type /\ handles[b].type = pass.type
        /\ handles[a].cancelled /\ handles[a].id \in pass.cancelled
        /\ b \in Keys(pass.type) /\ pass.done
        /\ Len(delivered) = 1 /\ delivered[1].id = handles[b].id

\* C19: no callback map holds a key for a destroyed Subscription (every key is
\* the address of a live Subscription, the one the entry was made for), and the
\* loop of ~SpecificDispatcher only ever cancels a live Subscription.
C19_NoKeyOfDestroyedHandle ==
    /\ \A T \in Types : \A a \in Keys(T) :
          a \in Live /\ handles[a].id = m_callbacks[T][a].id
    /\ (pc = "dtor" /\ curType # NoType) => iter \in Live

\* C19 witness: every handle was destroyed before the registry, whose
\* destruction then ran to its end without cancelling anything.
C19_Witness ==
    /\ registry = "destroyed" /\ fault = NoFault
    /\ nextId = MaxSubs /\ Live = {}
    /\ destroyed = Types

====
